---- MODULE Spec2Model ----
(***************************************************************************)
(* Model of src/src/main.cpp: a four-channel load monitor and relay        *)
(* controller.  handleWS applies one WebSocket command to completion,      *)
(* loop runs the once-per-second tick (metering, usage limit, timer,       *)
(* state broadcast), setup is a (re)boot.                                  *)
(*                                                                         *)
(* Units.  The code computes with float/double; the model computes the     *)
(* same expressions exactly, on integers:                                  *)
(*   V in volts, I in mA (clamped at 0), P = V*I in mW,                    *)
(*   Wh holds the energy in mW*s   (energy in Wh   = Wh   / 3600000),      *)
(*   cost holds Wh * unitPrice     (cost in money  = cost / 3600000000).   *)
(* Floating-point rounding is not modelled.  The seconds counters          *)
(* (unsigned long) and timerMinutes*60 (int) stay far below their widths   *)
(* within the bounds, so they are plain integers here.                     *)
(***************************************************************************)
EXTENDS Integers, Sequences, FiniteSets, TLC

NumLoads == 4
DefaultLimit == 43200
DefaultPrice == 8
\* The millisecond clock is counted in units of 4 ms, so that the 32-bit
\* wrap of millis() (2^32 ms = 2^30 units) fits the model's integers:
\* one second is 250 units, and every delay is a whole number of units.
UnitsPerSec == 250
TickUnits == 250
MillisMod == 1073741824

\* ---- bounds of the model ----
MaxElapses == 2
MaxMsgs == 3

Loads == 1..NumLoads

\* time that may pass between two iterations of loop(), in clock units
\* (half a minute)
HalfMinute == 30 * UnitsPerSec
Delays == {HalfMinute}
\* (bus voltage in V, current in mA) a present sensor may return
Readings == {<<5, 720>>, <<5, -40>>}
NoReading == <<0, 0>>
\* which INA219 answered begin() at boot: none, or the one of channel 1
NoSensors == <<FALSE, FALSE, FALSE, FALSE>>
OneSensor == <<TRUE, FALSE, FALSE, FALSE>>
PresenceConfigs == {NoSensors, OneSensor}

VARIABLES L, unitPrice, lastSec, inaPresent, pin, settingsFile, notifsFile,
          wsOut, uptime, lastEvent, timerStart, tripsSinceOn, limitTrips,
          saves, run, msgs, lastTick

vars == <<L, unitPrice, lastSec, inaPresent, pin, settingsFile, notifsFile,
          wsOut, uptime, lastEvent, timerStart, tripsSinceOn, limitTrips,
          saves, run, msgs, lastTick>>

\* History variables (they record what happened, the program does not read
\* them):
\*   lastEvent     the handler that ran last, and the message it was given
\*   timerStart[i] the time at which the deadline of channel i was armed while
\*                 ON, as long as no accepted command came after; else -1
\*   tripsSinceOn[i]  'auto OFF by limit' events since the last relay ON of i
\*   limitTrips[i]    'auto OFF by limit' events since boot
\*   saves         number of times /settings.json was written
\*   run[i]        the current run of ticks with one power reading: n ticks
\*                 reading p, the energy being base before the first of them
\*   msgs          number of messages handled
\*   lastTick      the uptime at which the last tick ran (0 before the first)
NoRun == [n |-> 0, p |-> 0, base |-> 0]
\* ---- clocks ----
\* uptime is the time since boot in clock units; millis() wraps, and
\* time(nullptr) counts whole seconds
Millis == uptime % MillisMod
Time == uptime \div UnitsPerSec

\* ---- struct Load ----
NewLoad == [V |-> 0, I |-> 0, P |-> 0, Wh |-> 0, cost |-> 0, relay |-> FALSE,
            onSecondsToday |-> 0, usageLimitSeconds |-> DefaultLimit,
            timerMinutes |-> 0, timerEndEpoch |-> 0]

\* ArduinoJson  doc[key] | dflt : the value when present and of the right
\* type, else the default.  A field is <<>> (missing or wrong type) or <<v>>.
OrDefault(f, d) == IF f = <<>> THEN d ELSE f[1]

\* ---- settings file ----
\* (variant: the timer minutes are not written to the settings document)
SettingsDocNoTimer(price, loads) ==
  [unitPrice |-> price,
   loads |-> [i \in Loads |-> [limitSec |-> loads[i].usageLimitSeconds,
                               timerMin |-> 0]]]

SettingsDoc(price, loads) ==
  [unitPrice |-> price,
   loads |-> [i \in Loads |-> [limitSec |-> loads[i].usageLimitSeconds,
                               timerMin |-> loads[i].timerMinutes]]]

SaveSettingsToFS(price, loads) == <<SettingsDoc(price, loads)>>

\* the in-memory configuration after loadSettingsFromFS
LoadedPrice(file, price) == IF file = <<>> THEN price ELSE file[1].unitPrice

LoadedLoads(file, loads) ==
  IF file = <<>> THEN loads
  ELSE [i \in Loads |-> [loads[i] EXCEPT
                           !.usageLimitSeconds = file[1].loads[i].limitSec,
                           !.timerMinutes = file[1].loads[i].timerMin]]

LoadedFile(file, price, loads) ==
  IF file = <<>> THEN SaveSettingsToFS(price, loads) ELSE file

\* ---- notifications ----
ReadLog(file) == IF file = <<>> THEN <<>> ELSE file[1]

NotifMsg(s) == [type |-> "notification", text |-> s, state |-> <<>>]

\* pushNotification rebuilds the whole log in a StaticJsonDocument<1024> and
\* ignores the result of deserializeJson.  An entry takes an array slot and
\* two member slots of 16 bytes each and the bytes of its text, 64 bytes at
\* most for the texts of this program, so the document holds LogCapacity
\* entries (the exact number depends on the texts; it is finite).
NotifDocBytes == 1024
EntryBytes == 64
LogCapacity == NotifDocBytes \div EntryBytes

\* What a push does when the document has no room left depends on where the
\* library runs out of memory: the log was read but the new entry finds no
\* room and the file is rewritten without it ("EntryLost"), or the read
\* itself fails, leaves the document empty, and the file is rewritten with
\* the new entry only ("LogLost").
NoMemoryOutcomes == {"EntryLost", "LogLost"}

\* the notification file after pushNotification(s) at time tnow, o being
\* the outcome should the document be full
PushNotification(o, file, s, tnow) ==
  IF Len(ReadLog(file)) < LogCapacity
  THEN <<Append(ReadLog(file), [ts |-> tnow, text |-> s])>>
  ELSE IF o = "EntryLost" THEN <<ReadLog(file)>>
  ELSE <<<<[ts |-> tnow, text |-> s]>>>>

RECURSIVE PushAll(_, _, _, _)
PushAll(o, file, texts, tnow) ==
  IF texts = <<>> THEN file
  ELSE PushAll(o, PushNotification(o, file, Head(texts), tnow), Tail(texts), tnow)

NotifMsgs(texts) == [k \in 1..Len(texts) |-> NotifMsg(texts[k])]

RelayText(id, state) == "Relay " \o ToString(id) \o (IF state THEN " ON" ELSE " OFF")
LimitText(i) == "Relay " \o ToString(i) \o " auto OFF by limit"
TimerText(i) == "Relay " \o ToString(i) \o " auto OFF by timer"

\* ---- broadcastState ----
Cost(wh, price) == wh * price

Snapshot(price, loads) ==
  [unitPrice |-> price,
   loads |-> [i \in Loads |->
     [id |-> i, voltage |-> loads[i].V, current |-> loads[i].I,
      power |-> loads[i].P, energy |-> loads[i].Wh, relay |-> loads[i].relay,
      onSecToday |-> loads[i].onSecondsToday,
      limitSec |-> loads[i].usageLimitSeconds,
      timerMin |-> loads[i].timerMinutes,
      timerEnd |-> IF loads[i].timerEndEpoch > 0
                   THEN <<loads[i].timerEndEpoch>> ELSE <<>>,
      cost |-> loads[i].cost]]]

BroadcastState(price, loads) ==
  [type |-> "state", text |-> "", state |-> <<Snapshot(price, loads)>>]

\* ---- WebSocket messages ----
Blank == [type |-> "TEXT", json |-> TRUE, cmd |-> <<>>, id |-> <<>>,
          state |-> <<>>, minutes |-> <<>>, seconds |-> <<>>, price |-> <<>>]

Relay(id, state) == [Blank EXCEPT !.cmd = <<"relay">>, !.id = id, !.state = state]
SetTimer(id, m) == [Blank EXCEPT !.cmd = <<"setTimer">>, !.id = id, !.minutes = m]
SetLimit(id, sec) == [Blank EXCEPT !.cmd = <<"setLimit">>, !.id = id, !.seconds = sec]
SetPrice(p) == [Blank EXCEPT !.cmd = <<"setPrice">>, !.price = p]

\* the messages a client sends: well-formed ones for channels 1 and 4, ids
\* just outside 1..4, missing fields, an unknown tag, no tag, text that is
\* not JSON, and a binary frame
Msgs ==
  {Relay(<<1>>, <<TRUE>>), Relay(<<1>>, <<FALSE>>), Relay(<<4>>, <<TRUE>>),
   Relay(<<5>>, <<TRUE>>), Relay(<<0>>, <<FALSE>>), Relay(<<>>, <<TRUE>>),
   SetTimer(<<1>>, <<1>>), SetTimer(<<1>>, <<0>>), SetTimer(<<1>>, <<-1>>),
   SetTimer(<<5>>, <<1>>), SetTimer(<<>>, <<1>>),
   SetLimit(<<1>>, <<2>>), SetLimit(<<1>>, <<0>>), SetLimit(<<4>>, <<1>>),
   SetLimit(<<0>>, <<2>>),
   SetPrice(<<10>>), SetPrice(<<>>),
   [Blank EXCEPT !.cmd = <<"clearNotifs">>],
   [Blank EXCEPT !.cmd = <<"reboot">>],
   Blank,
   [Blank EXCEPT !.json = FALSE],
   [Blank EXCEPT !.type = "BIN"]}

\* the commands that switch, time and limit channel 1, and one for channel 4
RelayMsgs ==
  {Relay(<<1>>, <<TRUE>>), Relay(<<1>>, <<FALSE>>), Relay(<<4>>, <<TRUE>>),
   SetTimer(<<1>>, <<1>>), SetTimer(<<1>>, <<0>>),
   SetLimit(<<1>>, <<1>>), SetLimit(<<1>>, <<2>>)}

\* the commands that matter to metering: the relay of the metered channel,
\* a limit that switches it OFF, and the price
MeterMsgs ==
  {Relay(<<1>>, <<TRUE>>), Relay(<<1>>, <<FALSE>>), SetLimit(<<1>>, <<1>>),
   SetPrice(<<10>>), SetPrice(<<>>)}

NoMsg == [Blank EXCEPT !.type = ""]

\* ---- setup ----
\* /settings.json as setup() finds it on the first boot of a behaviour: absent
\* (fresh file system), or left by an earlier run that set a 1-minute timer
\* on channel 1
StoredSettings ==
  {<<>>,
   SaveSettingsToFS(DefaultPrice,
     [i \in Loads |-> IF i = 1 THEN [NewLoad EXCEPT !.timerMinutes = 1]
                                ELSE NewLoad])}

\* /notifs.json as setup() finds it: absent, or left by an earlier run that
\* switched channel 1 ON and OFF until one more entry fits the document
EarlierLog ==
  [k \in 1..(LogCapacity - 1) |-> [ts |-> k, text |-> RelayText(1, k % 2 = 1)]]

StoredLogs == {<<>>, <<EarlierLog>>}

\* the state after setup(), for the sensors found and the settings and
\* notification files found
BootedWith(present, f, log) ==
  /\ inaPresent = present
  /\ saves = IF f = <<>> THEN 1 ELSE 0
  /\ L = LoadedLoads(f, [i \in Loads |-> NewLoad])
  /\ unitPrice = LoadedPrice(f, DefaultPrice)
  /\ settingsFile = LoadedFile(f, DefaultPrice, [i \in Loads |-> NewLoad])
  /\ lastSec = 0
  /\ pin = [i \in Loads |-> FALSE]
  /\ notifsFile = log
  /\ wsOut = <<>>
  /\ uptime = 0
  /\ lastEvent = [op |-> "setup", msg |-> NoMsg]
  /\ timerStart = [i \in Loads |-> -1]
  /\ tripsSinceOn = [i \in Loads |-> 0]
  /\ limitTrips = [i \in Loads |-> 0]
  /\ run = [i \in Loads |-> NoRun]
  /\ msgs = 0
  /\ lastTick = 0

\* the same on a file system without notification file
Booted(present, f) == BootedWith(present, f, <<>>)

Init == \E present \in PresenceConfigs, f \in StoredSettings : Booted(present, f)

\* first boot, no sensor found
InitRelay == Booted(NoSensors, <<>>)

\* first boot, the sensor of channel 1 found
InitMeter == Booted(OneSensor, <<>>)

\* first boot of the firmware without sensors, with or without the
\* notification file of an earlier run
InitLog == \E log \in StoredLogs : BootedWith(NoSensors, <<>>, log)

\* boot without sensors, with or without an earlier settings file
InitCmd == \E f \in StoredSettings : Booted(NoSensors, f)

Setup ==
  /\ inaPresent' \in PresenceConfigs
  /\ L' = LoadedLoads(settingsFile, [i \in Loads |-> NewLoad])
  /\ unitPrice' = LoadedPrice(settingsFile, DefaultPrice)
  /\ settingsFile' = LoadedFile(settingsFile, DefaultPrice, [i \in Loads |-> NewLoad])
  /\ lastSec' = 0
  /\ pin' = [i \in Loads |-> FALSE]
  /\ wsOut' = <<>>
  /\ uptime' = 0
  /\ lastEvent' = [op |-> "setup", msg |-> NoMsg]
  /\ timerStart' = [i \in Loads |-> -1]
  /\ tripsSinceOn' = [i \in Loads |-> 0]
  /\ limitTrips' = [i \in Loads |-> 0]
  /\ saves' = IF settingsFile = <<>> THEN saves + 1 ELSE saves
  /\ run' = [i \in Loads |-> NoRun]
  /\ lastTick' = 0
  /\ UNCHANGED <<notifsFile, msgs>>

\* ---- passage of time between loop iterations ----
Elapse(d) ==
  /\ uptime + d <= MaxElapses * HalfMinute
  /\ uptime' = uptime + d
  /\ lastEvent' = [op |-> "elapse", msg |-> NoMsg]
  /\ UNCHANGED <<L, unitPrice, lastSec, inaPresent, pin, settingsFile,
                 notifsFile, wsOut, timerStart, tripsSinceOn, limitTrips,
                 saves, run, msgs, lastTick>>

\* ---- handleWS ----
ValidId(id) == id >= 1 /\ id <= NumLoads

\* (variant: a rejected message is answered with a notification)
DroppedWithNotice ==
  /\ wsOut' = <<NotifMsg("Bad command")>>
  /\ \E o \in NoMemoryOutcomes :
       notifsFile' = PushNotification(o, notifsFile, "Bad command", Time)
  /\ UNCHANGED <<L, unitPrice, pin, settingsFile, timerStart, tripsSinceOn,
                 saves>>

\* a dropped message: nothing is written, nothing is sent
Dropped ==
  /\ wsOut' = <<>>
  /\ UNCHANGED <<L, unitPrice, pin, settingsFile, notifsFile, timerStart,
                 tripsSinceOn, saves>>

\* (variant: OFF keeps the armed deadline)
RelayCmdKeepsDeadline(l, state, tnow) ==
  [l EXCEPT !.relay = state,
            !.timerEndEpoch = IF state /\ l.timerMinutes > 0
                              THEN tnow + l.timerMinutes * 60
                              ELSE l.timerEndEpoch]

RelayCmd(l, state, tnow) ==
  [l EXCEPT !.relay = state,
            !.timerEndEpoch = IF state /\ l.timerMinutes > 0
                              THEN tnow + l.timerMinutes * 60
                              ELSE 0]

WSRelay(m) ==
  LET id == OrDefault(m.id, 1)
      state == OrDefault(m.state, FALSE)
  IN IF ValidId(id)
     THEN /\ pin' = [pin EXCEPT ![id] = state]
          /\ L' = [L EXCEPT ![id] = RelayCmd(@, state, Time)]
          /\ \E o \in NoMemoryOutcomes :
               notifsFile' = PushNotification(o, notifsFile, RelayText(id, state), Time)
          /\ wsOut' = <<NotifMsg(RelayText(id, state))>>
          /\ timerStart' = [i \in Loads |->
                              IF i = id /\ L'[id].timerEndEpoch > 0
                              THEN Time ELSE -1]
          /\ tripsSinceOn' = IF state THEN [tripsSinceOn EXCEPT ![id] = 0]
                             ELSE tripsSinceOn
          /\ UNCHANGED <<unitPrice, settingsFile, saves>>
     ELSE Dropped

\* (variant: a timer set while the channel is OFF is armed at once)
SetTimerCmdArmsOff(l, m, tnow) ==
  [l EXCEPT !.timerMinutes = m,
            !.timerEndEpoch = IF m > 0 THEN tnow + m * 60 ELSE 0]

SetTimerCmd(l, m, tnow) ==
  [l EXCEPT !.timerMinutes = m,
            !.timerEndEpoch = IF l.relay /\ m > 0
                              THEN tnow + m * 60
                              ELSE 0]

WSSetTimer(m) ==
  LET id == OrDefault(m.id, 1)
      mins == OrDefault(m.minutes, 0)
  IN IF ValidId(id)
     THEN /\ L' = [L EXCEPT ![id] = SetTimerCmd(@, mins, Time)]
          /\ settingsFile' = SaveSettingsToFS(unitPrice, L')
          /\ saves' = saves + 1
          /\ wsOut' = <<>>
          /\ timerStart' = [i \in Loads |->
                              IF i = id /\ L'[id].timerEndEpoch > 0
                              THEN Time ELSE -1]
          /\ UNCHANGED <<unitPrice, pin, notifsFile, tripsSinceOn>>
     ELSE Dropped

\* (variant: a limit of 0 is stored)
LimitAcceptedAny(id, s) == ValidId(id)

LimitAccepted(id, s) == ValidId(id) /\ s > 0

WSSetLimit(m) ==
  LET id == OrDefault(m.id, 1)
      s == OrDefault(m.seconds, 0)
  IN IF LimitAccepted(id, s)
     THEN /\ L' = [L EXCEPT ![id].usageLimitSeconds = s]
          /\ settingsFile' = SaveSettingsToFS(unitPrice, L')
          /\ saves' = saves + 1
          /\ wsOut' = <<>>
          /\ timerStart' = [i \in Loads |-> -1]
          /\ UNCHANGED <<unitPrice, pin, notifsFile, tripsSinceOn>>
     ELSE Dropped

WSSetPrice(m) ==
  /\ unitPrice' = OrDefault(m.price, DefaultPrice)
  /\ settingsFile' = SaveSettingsToFS(unitPrice', L)
  /\ saves' = saves + 1
  /\ wsOut' = <<>>
  /\ timerStart' = [i \in Loads |-> -1]
  /\ UNCHANGED <<L, pin, notifsFile, tripsSinceOn>>

\* (variant: the file is not removed)
NotRemoved(file) == file

\* SPIFFS.remove
Removed(file) == <<>>

WSClearNotifs ==
  /\ \E o \in NoMemoryOutcomes :
       notifsFile' = PushNotification(o, Removed(notifsFile), "Notifs cleared", Time)
  /\ wsOut' = <<NotifMsg("Notifs cleared")>>
  /\ timerStart' = [i \in Loads |-> -1]
  /\ UNCHANGED <<L, unitPrice, pin, settingsFile, tripsSinceOn, saves>>

HandleWS(m) ==
  /\ lastEvent' = [op |-> "handleWS", msg |-> m]
  /\ msgs < MaxMsgs
  /\ msgs' = msgs + 1
  /\ UNCHANGED <<lastSec, inaPresent, uptime, limitTrips, run, lastTick>>
  /\ IF m.type # "TEXT" \/ ~m.json \/ m.cmd = <<>> THEN Dropped
     ELSE IF m.cmd[1] = "relay" THEN WSRelay(m)
     ELSE IF m.cmd[1] = "setTimer" THEN WSSetTimer(m)
     ELSE IF m.cmd[1] = "setLimit" THEN WSSetLimit(m)
     ELSE IF m.cmd[1] = "setPrice" THEN WSSetPrice(m)
     ELSE IF m.cmd[1] = "clearNotifs" THEN WSClearNotifs
     ELSE Dropped

\* ---- loop ----
\* sensor reading and metering of one channel (lines 278-290)
Clamp(c) == IF c < 0 THEN 0 ELSE c
PowerOf(rd) == rd[1] * Clamp(rd[2])

\* (variant: energy is metered only while the relay is ON)
MeterOnlyOn(l, present, rd, price) ==
  IF present /\ l.relay
  THEN [l EXCEPT !.V = rd[1], !.I = Clamp(rd[2]), !.P = PowerOf(rd),
                 !.Wh = l.Wh + PowerOf(rd),
                 !.cost = Cost(l.Wh + PowerOf(rd), price)]
  ELSE IF present
  THEN [l EXCEPT !.V = rd[1], !.I = Clamp(rd[2]), !.P = PowerOf(rd)]
  ELSE [l EXCEPT !.V = 0, !.I = 0, !.P = 0]

\* (variant: the cost is not recomputed on a tick that adds no energy)
MeterLazyCost(l, present, rd, price) ==
  IF present
  THEN [l EXCEPT !.V = rd[1], !.I = Clamp(rd[2]), !.P = PowerOf(rd),
                 !.Wh = l.Wh + PowerOf(rd),
                 !.cost = IF PowerOf(rd) = 0 THEN l.cost
                          ELSE Cost(l.Wh + PowerOf(rd), price)]
  ELSE [l EXCEPT !.V = 0, !.I = 0, !.P = 0]

Meter(l, present, rd, price) ==
  IF present
  THEN [l EXCEPT !.V = rd[1], !.I = Clamp(rd[2]), !.P = PowerOf(rd),
                 !.Wh = l.Wh + PowerOf(rd),
                 !.cost = Cost(l.Wh + PowerOf(rd), price)]
  ELSE [l EXCEPT !.V = 0, !.I = 0, !.P = 0]

\* (variant: seconds are counted only while the channel draws power)
CountOnPowered(l) ==
  IF l.relay /\ l.P > 0 THEN [l EXCEPT !.onSecondsToday = l.onSecondsToday + 1]
  ELSE l

CountOn(l) ==
  IF l.relay THEN [l EXCEPT !.onSecondsToday = l.onSecondsToday + 1]
  ELSE l

\* (variant: the limit trips one second late)
LimitHitLate(l) ==
  l.relay /\ l.usageLimitSeconds > 0 /\ l.onSecondsToday > l.usageLimitSeconds

\* the limit test, on the channel after the increment
LimitHit(l) ==
  l.relay /\ l.usageLimitSeconds > 0 /\ l.onSecondsToday >= l.usageLimitSeconds

\* (variant: the limit is reported but the relay stays ON)
LimitCheckNoOff(l) == l

LimitCheck(l) == IF LimitHit(l) THEN [l EXCEPT !.relay = FALSE] ELSE l

\* the timer test, on the channel after the limit check
TimerHit(l, tnow) == l.timerEndEpoch > 0 /\ tnow >= l.timerEndEpoch

\* (variant: the timer leaves the relay to the limit check)
TimerCheckKeepsRelay(l, tnow) ==
  IF TimerHit(l, tnow) THEN [l EXCEPT !.timerEndEpoch = 0] ELSE l

TimerCheck(l, tnow) ==
  IF TimerHit(l, tnow) THEN [l EXCEPT !.relay = FALSE, !.timerEndEpoch = 0]
  ELSE l

\* one channel's pass through the body of the for loop
AfterCount(l, present, rd, price) == CountOn(Meter(l, present, rd, price))
AfterLimit(l, present, rd, price) == LimitCheck(AfterCount(l, present, rd, price))
TickLoad(l, present, rd, price, tnow) ==
  TimerCheck(AfterLimit(l, present, rd, price), tnow)

\* the notifications one channel's pass pushes, in order
TickTexts(i, l, present, rd, price, tnow) ==
  (IF LimitHit(AfterCount(l, present, rd, price)) THEN <<LimitText(i)>> ELSE <<>>)
  \o (IF TimerHit(AfterLimit(l, present, rd, price), tnow)
      THEN <<TimerText(i)>> ELSE <<>>)

RECURSIVE AllTexts(_, _, _, _)
AllTexts(i, rds, price, tnow) ==
  IF i > NumLoads THEN <<>>
  ELSE TickTexts(i, L[i], inaPresent[i], rds[i], price, tnow)
       \o AllTexts(i + 1, rds, price, tnow)

SensorInputs ==
  {f \in [Loads -> Readings \cup {NoReading}] :
     \A i \in Loads : (f[i] = NoReading) <=> ~inaPresent[i]}

\* (variant: the distance between the two clock values, without wrap)
SinceLastAbs ==
  IF Millis >= lastSec THEN Millis - lastSec ELSE lastSec - Millis

\* millis() - lastSec, in unsigned arithmetic
SinceLast == (Millis - lastSec) % MillisMod

Tick(rds) ==
  LET tnow == Time
      texts == AllTexts(1, rds, unitPrice, tnow)
  IN /\ SinceLast >= TickUnits
     /\ lastSec' = Millis
     /\ L' = [i \in Loads |-> TickLoad(L[i], inaPresent[i], rds[i], unitPrice, tnow)]
     /\ pin' = [i \in Loads |->
                  IF LimitHit(AfterCount(L[i], inaPresent[i], rds[i], unitPrice))
                     \/ TimerHit(AfterLimit(L[i], inaPresent[i], rds[i], unitPrice), tnow)
                  THEN FALSE ELSE pin[i]]
     /\ \E o \in NoMemoryOutcomes : notifsFile' = PushAll(o, notifsFile, texts, tnow)
     /\ wsOut' = NotifMsgs(texts) \o <<BroadcastState(unitPrice, L')>>
     /\ timerStart' = [i \in Loads |->
                         IF TimerHit(AfterLimit(L[i], inaPresent[i], rds[i], unitPrice), tnow)
                         THEN -1 ELSE timerStart[i]]
     /\ tripsSinceOn' = [i \in Loads |->
                           IF LimitHit(AfterCount(L[i], inaPresent[i], rds[i], unitPrice))
                           THEN tripsSinceOn[i] + 1 ELSE tripsSinceOn[i]]
     /\ limitTrips' = [i \in Loads |->
                         IF LimitHit(AfterCount(L[i], inaPresent[i], rds[i], unitPrice))
                         THEN limitTrips[i] + 1 ELSE limitTrips[i]]
     /\ run' = [i \in Loads |->
                  IF ~inaPresent[i] THEN run[i]
                  ELSE IF run[i].n > 0 /\ run[i].p = PowerOf(rds[i])
                       THEN [run[i] EXCEPT !.n = @ + 1]
                       ELSE [n |-> 1, p |-> PowerOf(rds[i]), base |-> L[i].Wh]]
     /\ lastEvent' = [op |-> "tick", msg |-> NoMsg]
     /\ lastTick' = uptime
     /\ UNCHANGED <<unitPrice, inaPresent, settingsFile, uptime, saves, msgs>>

\* an iteration of loop() less than a second after the last tick
Idle ==
  /\ SinceLast < TickUnits
  /\ lastEvent' = [op |-> "idle", msg |-> NoMsg]
  /\ UNCHANGED <<L, unitPrice, lastSec, inaPresent, pin, settingsFile,
                 notifsFile, wsOut, uptime, timerStart, tripsSinceOn,
                 limitTrips, saves, run, msgs, lastTick>>

Next ==
  \/ \E m \in Msgs : HandleWS(m)
  \/ \E rds \in SensorInputs : Tick(rds)
  \/ Idle
  \/ \E d \in Delays : Elapse(d)

\* every message, every sensor configuration
Spec == Init /\ [][Next]_vars

\* the loop with the commands of channel 1's relay, timer and limit
NextRelay ==
  \/ \E m \in RelayMsgs : HandleWS(m)
  \/ \E rds \in SensorInputs : Tick(rds)
  \/ Idle
  \/ \E d \in Delays : Elapse(d)

SpecRelay == InitRelay /\ [][NextRelay]_vars

\* the loop with a metered channel, relay commands and price changes
NextMeter ==
  \/ \E m \in MeterMsgs : HandleWS(m)
  \/ \E rds \in SensorInputs : Tick(rds)
  \/ Idle
  \/ \E d \in Delays : Elapse(d)

SpecMeter == InitMeter /\ [][NextMeter]_vars

\* the command handler alone, with every message, as time passes
NextCmd ==
  \/ \E m \in Msgs : HandleWS(m)
  \/ \E d \in Delays : Elapse(d)

SpecCmd == InitCmd /\ [][NextCmd]_vars

\* the commands that change the persisted configuration, and a relay command
PersistMsgs ==
  {SetTimer(<<4>>, <<-1>>), SetLimit(<<1>>, <<2>>), SetLimit(<<1>>, <<0>>),
   SetPrice(<<10>>), Relay(<<1>>, <<TRUE>>)}

\* a power cycle of a board without sensors
Reboot == Setup /\ inaPresent' = NoSensors

\* the loop with the configuration commands, and power cycles
NextPersist ==
  \/ \E m \in PersistMsgs : HandleWS(m)
  \/ \E rds \in SensorInputs : Tick(rds)
  \/ Idle
  \/ \E d \in Delays : Elapse(d)
  \/ Reboot

SpecPersist == InitCmd /\ [][NextPersist]_vars

\* the commands and ticks that write notifications
LogMsgs ==
  {Relay(<<1>>, <<TRUE>>), Relay(<<1>>, <<FALSE>>), SetLimit(<<1>>, <<1>>),
   [Blank EXCEPT !.cmd = <<"clearNotifs">>]}

NextLog ==
  \/ \E m \in LogMsgs : HandleWS(m)
  \/ \E rds \in SensorInputs : Tick(rds)
  \/ Idle
  \/ \E d \in Delays : Elapse(d)

SpecLog == InitLog /\ [][NextLog]_vars

\* the commands of channel 4, whose sensor is absent, and of the metered
\* channel 1
AbsentMsgs ==
  {Relay(<<4>>, <<TRUE>>), SetLimit(<<4>>, <<1>>), SetTimer(<<4>>, <<1>>),
   Relay(<<1>>, <<TRUE>>)}

NextAbsent ==
  \/ \E m \in AbsentMsgs : HandleWS(m)
  \/ \E rds \in SensorInputs : Tick(rds)
  \/ Idle
  \/ \E d \in Delays : Elapse(d)

SpecAbsent == InitMeter /\ [][NextAbsent]_vars

\* ---- the loop around the wrap of millis() ----
\* loop iterations a fraction of a second or a whole second apart
ShortDelays == {(2 * UnitsPerSec) \div 5, UnitsPerSec}

\* two seconds before millis() wraps
WrapStart == MillisMod - 2 * TickUnits

\* a board without sensors that has been up and idle for 49.7 days, all
\* relays OFF, right after a tick
InitWrap ==
  /\ inaPresent = NoSensors
  /\ saves = 1
  /\ L = [i \in Loads |-> NewLoad]
  /\ unitPrice = DefaultPrice
  /\ settingsFile = SaveSettingsToFS(DefaultPrice, [i \in Loads |-> NewLoad])
  /\ uptime = WrapStart
  /\ lastSec = WrapStart % MillisMod
  /\ lastTick = WrapStart
  /\ pin = [i \in Loads |-> FALSE]
  /\ notifsFile = <<>>
  /\ wsOut = <<BroadcastState(DefaultPrice, [i \in Loads |-> NewLoad])>>
  /\ lastEvent = [op |-> "tick", msg |-> NoMsg]
  /\ timerStart = [i \in Loads |-> -1]
  /\ tripsSinceOn = [i \in Loads |-> 0]
  /\ limitTrips = [i \in Loads |-> 0]
  /\ run = [i \in Loads |-> NoRun]
  /\ msgs = 0

ElapseWrap(d) ==
  /\ uptime + d <= WrapStart + (MaxElapses + 2) * TickUnits
  /\ uptime' = uptime + d
  /\ lastEvent' = [op |-> "elapse", msg |-> NoMsg]
  /\ UNCHANGED <<L, unitPrice, lastSec, inaPresent, pin, settingsFile,
                 notifsFile, wsOut, timerStart, tripsSinceOn, limitTrips,
                 saves, run, msgs, lastTick>>

WrapMsgs == {Relay(<<1>>, <<TRUE>>), SetLimit(<<1>>, <<2>>)}

NextWrap ==
  \/ \E m \in WrapMsgs : HandleWS(m)
  \/ \E rds \in SensorInputs : Tick(rds)
  \/ Idle
  \/ \E d \in ShortDelays : ElapseWrap(d)

SpecWrap == InitWrap /\ [][NextWrap]_vars

\* ---- the loop as long as ticks keep occurring ----
\* /settings.json left by an earlier run that set every usage limit to 2 s
ShortLimits ==
  SaveSettingsToFS(DefaultPrice,
    [i \in Loads |-> [NewLoad EXCEPT !.usageLimitSeconds = 2]])

InitLive == Booted(NoSensors, ShortLimits)

\* time passes while a channel is ON, and the loop runs before more passes
ElapseLive(d) ==
  /\ \E i \in Loads : L[i].relay
  /\ SinceLast < TickUnits
  /\ uptime' = uptime + d
  /\ lastEvent' = [op |-> "elapse", msg |-> NoMsg]
  /\ UNCHANGED <<L, unitPrice, lastSec, inaPresent, pin, settingsFile,
                 notifsFile, wsOut, timerStart, tripsSinceOn, limitTrips,
                 saves, run, msgs, lastTick>>

LiveMsgs ==
  {Relay(<<1>>, <<TRUE>>), Relay(<<4>>, <<TRUE>>), Relay(<<1>>, <<FALSE>>),
   SetLimit(<<1>>, <<1>>), SetLimit(<<1>>, <<0>>)}

TimePasses == \E d \in Delays : ElapseLive(d)
Ticks == \E rds \in SensorInputs : Tick(rds)

NextLive ==
  \/ \E m \in LiveMsgs : HandleWS(m)
  \/ Ticks
  \/ Idle
  \/ TimePasses

\* time keeps passing and the loop keeps running
SpecLive ==
  InitLive /\ [][NextLive]_vars /\ WF_vars(TimePasses) /\ WF_vars(Ticks)

\* the same, with power cycles
NextBoot ==
  \/ Next
  \/ Setup

SpecBoot == Init /\ [][NextBoot]_vars

\* ---------------------------------------------------------------------
\* Properties
\* ---------------------------------------------------------------------
HasNotif(out, s) ==
  \E k \in 1..Len(out) : out[k].type = "notification" /\ out[k].text = s

IsTick == lastEvent'.op = "tick"
IsWS(m) == lastEvent'.op = "handleWS" /\ lastEvent'.msg = m

\* C1: a channel that is ON with usage limit lim > 0 and seconds-on-today =
\* lim-1 has, after the next tick, seconds-on-today = lim and its relay
\* forced OFF with the notification 'auto OFF by limit'; and a tick emits
\* that notification only for a channel that was ON and whose incremented
\* seconds-on-today has reached the limit.
C1_LimitTripTiming ==
  [][IsTick =>
      \A i \in Loads :
        /\ (L[i].relay /\ L[i].usageLimitSeconds > 0
            /\ L[i].onSecondsToday = L[i].usageLimitSeconds - 1)
           => /\ L'[i].onSecondsToday = L[i].usageLimitSeconds
              /\ ~L'[i].relay /\ ~pin'[i]
              /\ HasNotif(wsOut', LimitText(i))
        /\ HasNotif(wsOut', LimitText(i))
           => /\ L[i].relay
              /\ L'[i].onSecondsToday = L[i].onSecondsToday + 1
              /\ L'[i].onSecondsToday >= L'[i].usageLimitSeconds
        /\ (L[i].relay /\ ~L'[i].relay)
           => \/ L'[i].onSecondsToday >= L'[i].usageLimitSeconds
              \/ HasNotif(wsOut', TimerText(i))]_vars

\* a tick has just tripped the limit of a channel at exactly lim = 2 seconds
C1_Witness ==
  /\ lastEvent.op = "tick"
  /\ \E i \in Loads :
       /\ L[i].usageLimitSeconds = 2 /\ L[i].onSecondsToday = 2
       /\ ~L[i].relay
       /\ HasNotif(wsOut, LimitText(i))

\* the deadline start + M*60 of a timer armed while ON and not followed by
\* a command
Deadline(i) == timerStart[i] + L[i].timerMinutes * 60

\* the usage limit is reached by the increment of this tick
LimitDue(i) ==
  L[i].usageLimitSeconds > 0
  /\ L[i].onSecondsToday + 1 >= L[i].usageLimitSeconds

\* C2 as stated: after a timer of M minutes is armed at 'start' on a channel
\* that is ON and no command follows, the relay is ON after every tick whose
\* time is < start+M*60, and the first tick whose time is >= start+M*60
\* forces it OFF, sets the deadline to 0 and emits 'auto OFF by timer'.
C2_AsStated ==
  [][IsTick =>
      \A i \in Loads :
        timerStart[i] >= 0 =>
          /\ Time < Deadline(i) => L'[i].relay
          /\ Time >= Deadline(i)
             => /\ ~L'[i].relay /\ L'[i].timerEndEpoch = 0
                /\ HasNotif(wsOut', TimerText(i))]_vars

\* C2 (amended): after a timer of M > 0 minutes is armed at 'start' on a
\* channel that is ON and no command follows, the stored deadline is
\* start+M*60; after a tick whose time is < start+M*60 the relay is ON
\* unless the usage limit has forced it OFF on that tick or an earlier one,
\* and the deadline is kept; the first tick whose time is >= start+M*60
\* leaves the relay OFF, sets the deadline to 0 and emits 'auto OFF by timer'.
C2_TimerTripTiming ==
  [][IsTick =>
      \A i \in Loads :
        timerStart[i] >= 0 =>
          /\ L[i].timerMinutes > 0 /\ L[i].timerEndEpoch = Deadline(i)
          /\ ~L[i].relay => limitTrips[i] > 0
          /\ Time < Deadline(i)
             => /\ L'[i].relay <=> (L[i].relay /\ ~LimitDue(i))
                /\ L'[i].timerEndEpoch = Deadline(i)
                /\ ~HasNotif(wsOut', TimerText(i))
          /\ Time >= Deadline(i)
             => /\ ~L'[i].relay /\ ~pin'[i] /\ L'[i].timerEndEpoch = 0
                /\ HasNotif(wsOut', TimerText(i))]_vars

\* a timer armed at time 0 has kept the relay ON over the tick at 30 s and
\* has tripped on the tick at 60 s
C2_Witness ==
  /\ lastEvent.op = "tick" /\ Time = 60
  /\ \E i \in Loads :
       /\ L[i].timerMinutes = 1 /\ L[i].timerEndEpoch = 0
       /\ L[i].onSecondsToday = 2 /\ ~L[i].relay
       /\ limitTrips[i] = 0
       /\ HasNotif(wsOut, TimerText(i))

KnownTags == {"relay", "setTimer", "setLimit", "setPrice", "clearNotifs"}
IdTags == {"relay", "setTimer", "setLimit"}

\* a parsed message whose tag is none of the five commands
UnknownTag(m) ==
  m.type = "TEXT" /\ m.json /\ m.cmd # <<>> /\ m.cmd[1] \notin KnownTags

\* a relay/setTimer/setLimit message whose id is an integer outside 1..4
IdOutOfRange(m) ==
  /\ m.type = "TEXT" /\ m.json /\ m.cmd # <<>> /\ m.cmd[1] \in IdTags
  /\ m.id # <<>> /\ (m.id[1] < 1 \/ m.id[1] > 4)

\* a relay/setTimer/setLimit message without an integer id, or a setPrice
\* message without a price
Malformed(m) ==
  /\ m.type = "TEXT" /\ m.json /\ m.cmd # <<>>
  /\ \/ m.cmd[1] \in IdTags /\ m.id = <<>>
     \/ m.cmd[1] = "setPrice" /\ m.price = <<>>

NothingChanged ==
  /\ UNCHANGED <<L, unitPrice, pin, settingsFile, notifsFile, saves,
                 inaPresent, lastSec>>
  /\ wsOut' = <<>>

\* C4: a message with an unrecognized tag, or a relay/setTimer/setLimit
\* message whose id is an integer outside 1..4, changes no channel field,
\* not the unit price, the relay outputs, the settings file or the
\* notification log, and nothing is published in response.
C4_UnknownOrBadIdDropped ==
  [][\A m \in Msgs :
       (IsWS(m) /\ (UnknownTag(m) \/ IdOutOfRange(m))) => NothingChanged]_vars

\* relay ON for id 5 has been handled while channel 4 is ON and one entry
\* is in the log
C4_Witness ==
  /\ lastEvent.op = "handleWS" /\ lastEvent.msg = Relay(<<5>>, <<TRUE>>)
  /\ L[4].relay
  /\ Len(ReadLog(notifsFile)) = 1
  /\ wsOut = <<>>

\* C5: a relay, setTimer or setLimit message whose id is missing or not an
\* integer, or a setPrice message whose price is missing, is dropped: no
\* channel state, unit price or persisted setting changes and no
\* notification is emitted.
C5_MalformedDropped ==
  [][\A m \in Msgs : (IsWS(m) /\ Malformed(m)) => NothingChanged]_vars

\* C6: setLimit(id, 0) with id in 1..4 keeps the channel's usage limit,
\* changes no other channel or global field, and saves no settings.
C6_SetLimitZeroNoOp ==
  [][\A m \in Msgs :
       (IsWS(m) /\ m.cmd = <<"setLimit">> /\ m.seconds = <<0>>
        /\ m.id # <<>> /\ m.id[1] \in Loads)
       => NothingChanged]_vars

\* setLimit(1, 0) has been handled after the limit of channel 1 was set to 2
C6_Witness ==
  /\ lastEvent.op = "handleWS" /\ lastEvent.msg = SetLimit(<<1>>, <<0>>)
  /\ L[1].usageLimitSeconds = 2
  /\ settingsFile[1].loads[1].limitSec = 2

\* C7: a relay command for a channel with timer-minutes M sets the deadline
\* to now + M*60 when it switches ON and M > 0, computed from the time of
\* this command, and to 0 when it switches OFF or M <= 0; it does not
\* change timer-minutes.
C7_RelayDeadline ==
  [][\A m \in Msgs :
       (IsWS(m) /\ m.cmd = <<"relay">> /\ m.id # <<>> /\ m.id[1] \in Loads)
       => LET id == m.id[1]
              on == (m.state = <<TRUE>>)
          IN /\ L'[id].relay = on
             /\ L'[id].timerMinutes = L[id].timerMinutes
             /\ L'[id].timerEndEpoch =
                  IF on /\ L[id].timerMinutes > 0
                  THEN Time + L[id].timerMinutes * 60 ELSE 0]_vars

\* channel 1 (timer 1 minute) was switched ON at t1, OFF, and ON again at a
\* later t2: its deadline is t2 + 60
C7_Witness ==
  LET log == ReadLog(notifsFile)
  IN /\ Len(log) = 3
     /\ log[1].text = RelayText(1, TRUE)
     /\ log[2].text = RelayText(1, FALSE)
     /\ log[3].text = RelayText(1, TRUE)
     /\ log[3].ts > log[1].ts
     /\ L[1].timerMinutes = 1
     /\ L[1].timerEndEpoch = log[3].ts + 60
     /\ lastEvent.op = "handleWS" /\ lastEvent.msg = Relay(<<1>>, <<TRUE>>)

\* C8: over a run of N consecutive ticks on which a present sensor reads
\* the same power P, the energy grows by exactly N*P/3600 Wh (N*P in the
\* model's unit), whatever the relay flag and whatever commands come
\* between the ticks; a tick adds the power of a present channel, no other
\* step changes the energy, and the energy never decreases.
C8_EnergyAccumulation ==
  /\ [](\A i \in Loads :
          inaPresent[i] => L[i].Wh = run[i].base + run[i].n * run[i].p)
  /\ [][\A i \in Loads :
          /\ L'[i].Wh >= L[i].Wh
          /\ (IsTick /\ inaPresent[i]) => L'[i].Wh = L[i].Wh + L'[i].P
          /\ ~IsTick => L'[i].Wh = L[i].Wh]_vars

\* two consecutive ticks have read 3600 mW on channel 1, whose relay is OFF,
\* with commands handled in between
C8_Witness ==
  /\ inaPresent[1] /\ ~L[1].relay
  /\ run[1].n = 2 /\ run[1].p = 3600
  /\ L[1].Wh = run[1].base + 7200
  /\ msgs > 0

\* C9: in every published state snapshot, for every channel,
\* cost = (energy/1000) * unitPrice with the energy and the unit price of
\* that snapshot (cost = energy * unitPrice in the model's units).
C9_SnapshotCost ==
  \A k \in 1..Len(wsOut) :
    wsOut[k].type = "state" =>
      LET snap == wsOut[k].state[1]
      IN \A i \in Loads :
           snap.loads[i].cost = snap.loads[i].energy * snap.unitPrice

\* a snapshot published after setPrice(10): channel 1 (sensor present) has
\* metered energy on an earlier tick and none on this one, channel 4
\* (sensor absent) has none
C9_Witness ==
  \E k \in 1..Len(wsOut) :
    /\ wsOut[k].type = "state"
    /\ wsOut[k].state[1].unitPrice = 10
    /\ wsOut[k].state[1].loads[1].energy > 0
    /\ wsOut[k].state[1].loads[1].power = 0
    /\ wsOut[k].state[1].loads[1].cost = wsOut[k].state[1].loads[1].energy * 10
    /\ wsOut[k].state[1].loads[4].cost = 0

\* C10 as stated: between two restarts at most one 'auto OFF by limit'
\* occurs for any channel.
C10_AsStated == \A i \in Loads : limitTrips[i] <= 1

\* C10 (amended): the usage limit trips at most once per relay ON command:
\* after an 'auto OFF by limit' of a channel no further one occurs for that
\* channel until a relay command switches it ON again, and seconds-on-today
\* never decreases, so that a channel switched ON again can trip again in
\* the same process lifetime.
C10_OneTripPerOn ==
  /\ [](\A i \in Loads : tripsSinceOn[i] <= 1)
  /\ [][\A i \in Loads :
          /\ L'[i].onSecondsToday >= L[i].onSecondsToday
          /\ limitTrips'[i] > limitTrips[i]
             => L[i].relay /\ ~L'[i].relay /\ HasNotif(wsOut', LimitText(i))]_vars

\* a channel has tripped its limit a second time since boot, after being
\* switched ON again
C10_Witness ==
  \E i \in Loads :
    /\ limitTrips[i] = 2 /\ tripsSinceOn[i] = 1
    /\ ~L[i].relay
    /\ lastEvent.op = "tick"

\* ---- persistence ----
\* the in-memory configuration: unit price, and usage limit and timer
\* minutes of every channel
Config(price, loads) ==
  [unitPrice |-> price,
   loads |-> [i \in Loads |-> [limitSec |-> loads[i].usageLimitSeconds,
                               timerMin |-> loads[i].timerMinutes]]]

\* a setTimer or setLimit message the handler accepts, or a setPrice message
Accepted(m) ==
  /\ m.type = "TEXT" /\ m.json /\ m.cmd # <<>>
  /\ \/ m.cmd[1] = "setPrice"
     \/ m.cmd[1] = "setTimer" /\ ValidId(OrDefault(m.id, 1))
     \/ m.cmd[1] = "setLimit" /\ ValidId(OrDefault(m.id, 1))
                              /\ OrDefault(m.seconds, 0) > 0

\* C11: after boot and after every completed command (and tick) the
\* settings file exists and holds the in-memory configuration: unit price,
\* and usage limit and timer minutes of the four channels; every accepted
\* setTimer, setLimit and setPrice writes the file within the command; and a
\* restart reloads exactly the configuration that was in memory before it.
C11_SettingsPersisted ==
  /\ [](/\ settingsFile # <<>>
        /\ settingsFile[1] = Config(unitPrice, L))
  /\ [][/\ \A m \in PersistMsgs :
             (IsWS(m) /\ Accepted(m)) => saves' = saves + 1
        /\ lastEvent'.op = "setup"
             => /\ Config(unitPrice', L') = Config(unitPrice, L)
                /\ settingsFile' = settingsFile]_vars

\* the device has restarted after setTimer(4,-1), setLimit(1,2) and
\* setPrice(10) and runs with these values
C11_Witness ==
  /\ lastEvent.op = "setup" /\ msgs = 3
  /\ unitPrice = 10
  /\ L[1].usageLimitSeconds = 2 /\ L[4].timerMinutes = -1
  /\ saves >= 3

\* ---- notification log ----
\* the texts of the notifications in a sequence of published messages
RECURSIVE NotifTexts(_)
NotifTexts(out) ==
  IF out = <<>> THEN <<>>
  ELSE (IF Head(out).type = "notification" THEN <<Head(out).text>> ELSE <<>>)
       \o NotifTexts(Tail(out))

Stamped(texts, tnow) == [k \in 1..Len(texts) |-> [ts |-> tnow, text |-> texts[k]]]

IsClear == lastEvent'.op = "handleWS" /\ lastEvent'.msg.cmd = <<"clearNotifs">>

\* C12: the notification log is append-only and unbounded: a command other
\* than clearNotifs, or a tick, leaves every logged entry in place and in
\* order and adds one entry at the end for each notification it emits;
\* no other step changes the log, so that its length never decreases
\* except through clearNotifs, however many entries were appended.
C12_AppendOnly ==
  [][~IsClear =>
      IF lastEvent'.op \in {"handleWS", "tick"}
      THEN ReadLog(notifsFile') =
             ReadLog(notifsFile) \o Stamped(NotifTexts(wsOut'), Time)
      ELSE notifsFile' = notifsFile]_vars

\* C13: every relay command with id in 1..4 emits exactly one notification,
\* naming that channel and the new state (ON or OFF): it is the only message
\* published in response and it is appended to the log, also when the
\* commanded state equals the current relay state.
C13_RelayNotifies ==
  [][\A m \in LogMsgs :
       (IsWS(m) /\ m.cmd = <<"relay">> /\ m.id # <<>> /\ m.id[1] \in Loads)
       => LET text == RelayText(m.id[1], OrDefault(m.state, FALSE))
          IN /\ wsOut' = <<NotifMsg(text)>>
             /\ ReadLog(notifsFile') =
                  Append(ReadLog(notifsFile), [ts |-> Time, text |-> text])]_vars

\* ---- absent sensors ----
\* the fields of a channel that relay control reads and writes
Control(l) ==
  [relay |-> l.relay, onSecondsToday |-> l.onSecondsToday,
   usageLimitSeconds |-> l.usageLimitSeconds,
   timerMinutes |-> l.timerMinutes, timerEndEpoch |-> l.timerEndEpoch]

ZeroFilled(l) == l.V = 0 /\ l.I = 0 /\ l.P = 0 /\ l.Wh = 0 /\ l.cost = 0

\* C14: a channel whose sensor was absent at boot has voltage, current,
\* power, energy and cost 0 after every tick, and presence never changes;
\* a tick switches, counts and times such a channel exactly as it would
\* with a sensor present (whatever it read), with the same notifications,
\* and relay, setTimer and setLimit commands take effect on it.
C14_AbsentSensor ==
  /\ [](\A i \in Loads : ~inaPresent[i] => ZeroFilled(L[i]))
  /\ [][/\ inaPresent' = inaPresent
        /\ IsTick =>
             \A i \in Loads : \A rd \in Readings :
               ~inaPresent[i] =>
                 /\ Control(L'[i]) =
                      Control(TickLoad(L[i], TRUE, rd, unitPrice, Time))
                 /\ \A s \in {LimitText(i), TimerText(i)} :
                      HasNotif(wsOut', s) <=>
                        \E k \in 1..Len(TickTexts(i, L[i], TRUE, rd, unitPrice, Time)) :
                          TickTexts(i, L[i], TRUE, rd, unitPrice, Time)[k] = s
                 /\ pin'[i] = L'[i].relay
        /\ \A m \in AbsentMsgs :
             (IsWS(m) /\ ~inaPresent[m.id[1]]) =>
               LET id == m.id[1]
               IN /\ m.cmd = <<"relay">>
                       => L'[id].relay = m.state[1] /\ pin'[id] = m.state[1]
                  /\ m.cmd = <<"setTimer">>
                       => L'[id].timerMinutes = m.minutes[1]
                  /\ m.cmd = <<"setLimit">>
                       => L'[id].usageLimitSeconds = m.seconds[1]]_vars

\* channel 4 (sensor absent) was switched ON with limit 1 s and a tick has
\* forced it OFF, while channel 1 (sensor present) has metered energy
C14_Witness ==
  /\ ~inaPresent[4] /\ inaPresent[1]
  /\ lastEvent.op = "tick"
  /\ ~L[4].relay /\ L[4].onSecondsToday = 1 /\ limitTrips[4] = 1
  /\ ZeroFilled(L[4])
  /\ L[1].Wh > 0

\* C15: when the usage-limit check trips on a tick, the relay of the
\* channel is OFF and its timer deadline is 0 at the end of that tick,
\* whether or not the armed deadline had been reached.
C15_LimitTripClearsDeadline ==
  [][IsTick =>
      \A i \in Loads :
        limitTrips'[i] > limitTrips[i]
        => ~L'[i].relay /\ L'[i].timerEndEpoch = 0]_vars

\* C16: auto-off applies only to channels whose relay is ON: a tick emits
\* 'auto OFF by limit' or 'auto OFF by timer' for a channel only if its
\* relay was ON and the tick switches it OFF, and never both in one tick,
\* so that a channel that is already OFF receives no auto-OFF notification.
C16_AutoOffOnlyWhenOn ==
  [][IsTick =>
      \A i \in Loads :
        /\ (HasNotif(wsOut', LimitText(i)) \/ HasNotif(wsOut', TimerText(i)))
           => L[i].relay /\ ~L'[i].relay
        /\ ~(HasNotif(wsOut', LimitText(i)) /\ HasNotif(wsOut', TimerText(i)))]_vars

\* C17: setTimer(id, m) with id in 1..4 stores timer-minutes = m; if the
\* channel is ON and m > 0 the deadline becomes now + m*60, whatever it was
\* before; if m = 0 the deadline becomes 0; if the channel is OFF no
\* deadline is armed (it is 0) and the stored minutes arm one at the next
\* relay ON.  setTimer changes neither the relay flag, the relay output,
\* seconds-on-today, the usage limit, nor any other channel.
C17_SetTimer ==
  [][\A m \in Msgs :
       /\ (IsWS(m) /\ m.cmd = <<"setTimer">> /\ m.minutes # <<>>
           /\ m.id # <<>> /\ m.id[1] \in Loads)
          => LET id == m.id[1]
                 mins == m.minutes[1]
             IN /\ L'[id].timerMinutes = mins
                /\ (L[id].relay /\ mins > 0)
                     => L'[id].timerEndEpoch = Time + mins * 60
                /\ mins = 0 => L'[id].timerEndEpoch = 0
                /\ ~L[id].relay => L'[id].timerEndEpoch = 0
                /\ L'[id].relay = L[id].relay /\ pin' = pin
                /\ L'[id].onSecondsToday = L[id].onSecondsToday
                /\ L'[id].usageLimitSeconds = L[id].usageLimitSeconds
                /\ \A j \in Loads \ {id} : L'[j] = L[j]
       /\ (IsWS(m) /\ m.cmd = <<"relay">> /\ m.state = <<TRUE>>
           /\ m.id # <<>> /\ m.id[1] \in Loads /\ ~L[m.id[1]].relay
           /\ L[m.id[1]].timerMinutes > 0)
          => L'[m.id[1]].timerEndEpoch = Time + L[m.id[1]].timerMinutes * 60]_vars

\* channel 1, ON since time 0 with a deadline at 60, was given a timer of
\* 1 minute at time 30: its deadline is 90
C17_Witness ==
  /\ lastEvent.op = "handleWS" /\ lastEvent.msg = SetTimer(<<1>>, <<1>>)
  /\ Time = 30 /\ msgs = 2
  /\ L[1].relay /\ L[1].timerMinutes = 1 /\ L[1].timerEndEpoch = 90
  /\ ReadLog(notifsFile) = <<[ts |-> 0, text |-> RelayText(1, TRUE)]>>
  /\ settingsFile[1].loads[1].timerMin = 1

\* ---- tick gating ----
StateMsgs(out) == {k \in 1..Len(out) : out[k].type = "state"}

\* C18: the tick body runs only in a loop iteration that finds at least
\* 1000 ms elapsed since the previous tick (since boot for the first),
\* also when the millisecond counter has wrapped in between, and an
\* iteration that finds less changes nothing; a tick publishes exactly one
\* state snapshot, as its last message, showing the channels as the tick
\* leaves them; no other step publishes a snapshot.
C18_TickGating ==
  [][/\ IsTick =>
          /\ uptime - lastTick >= TickUnits
          /\ lastTick' = uptime /\ lastSec' = Millis
          /\ StateMsgs(wsOut') = {Len(wsOut')}
          /\ wsOut'[Len(wsOut')] = BroadcastState(unitPrice', L')
     /\ lastEvent'.op = "idle" =>
          /\ uptime - lastTick < TickUnits
          /\ UNCHANGED <<L, lastSec, pin, notifsFile, wsOut>>
     /\ lastEvent'.op = "handleWS" => StateMsgs(wsOut') = {}
     /\ lastEvent'.op = "elapse" => UNCHANGED <<L, lastSec, wsOut>>]_vars

\* a tick has run after the millisecond counter wrapped, the previous tick
\* having run before the wrap, with channel 1 ON
C18_Witness ==
  /\ lastEvent.op = "tick"
  /\ uptime > MillisMod /\ lastSec = uptime - MillisMod
  /\ lastSec < TickUnits
  /\ L[1].relay /\ L[1].onSecondsToday = 1

\* ---- the limit cannot be disabled ----
\* C19: the usage limit of every channel is > 0 in every reachable state,
\* whatever commands are received, and therefore a channel that is ON is
\* eventually OFF again as long as ticks keep occurring, also when no
\* further command is received.
C19_LimitEventuallyTrips ==
  /\ [](\A i \in Loads : L[i].usageLimitSeconds > 0)
  /\ \A i \in Loads : L[i].relay ~> ~L[i].relay

\* channel 4, switched ON once and left alone, has been forced OFF by its
\* limit of 2 s on the second tick, after setLimit(1,0) was received
C19_Witness ==
  /\ lastEvent.op = "tick"
  /\ ~L[4].relay /\ L[4].onSecondsToday = 2 /\ limitTrips[4] = 1
  /\ Len(ReadLog(notifsFile)) = 2
  /\ ReadLog(notifsFile)[1].text = RelayText(4, TRUE)
  /\ ReadLog(notifsFile)[2].text = LimitText(4)
  /\ msgs = 2 /\ saves = 0

\* ---- relay outputs ----
\* C20: after setup and after every completed command or tick the relay
\* output of each channel equals its relay flag; a step that changes the
\* flag writes the output to the same value, and after setup all four
\* channels are OFF.
C20_OutputFollowsFlag ==
  /\ [](\A i \in Loads : pin[i] = L[i].relay)
  /\ [](lastEvent.op = "setup" => \A i \in Loads : ~pin[i] /\ ~L[i].relay)
  /\ [][\A i \in Loads :
          L'[i].relay # L[i].relay => pin'[i] = L'[i].relay]_vars

\* the timer has switched channel 1 OFF on a tick: flag and output are OFF
C20_Witness ==
  /\ lastEvent.op = "tick"
  /\ HasNotif(wsOut, TimerText(1))
  /\ ~pin[1] /\ ~L[1].relay /\ L[1].onSecondsToday > 0

====
